---- MODULE Spec2Model ----
(***************************************************************************)
(* Model of team_analysis.py: analyze_team_communication, the scoring      *)
(* pipeline of TeamSync Lite.                                              *)
(*                                                                         *)
(* Numbers are fixed-point integers: avg_daily_messages, the three scores, *)
(* participation_balance and total_score are held in tenths (they are      *)
(* rounded to 1 decimal or are multiples of 0.5), avg_sentiment and the    *)
(* polarities in hundredths (rounded to 2 decimals).  A float is a record  *)
(* [nan, v]: pandas/numpy yield NaN for the mean of nothing and for the    *)
(* sample standard deviation of fewer than two values, and Python's        *)
(* comparisons with NaN are all false.  participation.std() is kept exact  *)
(* as its variance num/den.  Binary floating-point representation error is *)
(* not modelled.  The DataFrame is held as a multiset of rows: every       *)
(* statistic the function computes (size, mean, value_counts, std) is      *)
(* independent of row order.  The channel column is never read and is      *)
(* left out; so are the f-string labels and the date stamp of the report.  *)
(***************************************************************************)
EXTENDS Integers, FiniteSets, Sequences, TLC

VARIABLES rows, pc, stats, report, error

vars == <<rows, pc, stats, report, error>>

(* ---------------------------- bounds ----------------------------------- *)

MaxRows == 5
MaxDay == 3

(* ---------------------------- inputs ----------------------------------- *)

NULL == "NULL"
Throws == "text-throws"
Members == {"anna", "boris"}
Texts == {Throws, "text-120", "text-10", "text+20", "text+120"}

\* TextBlob(str(text)).sentiment.polarity in hundredths; the capability is
\* external, the values cover both label boundaries and both clamp ends.
Polarity(text) ==
    CASE text = "text-120" -> -120
      [] text = "text-10" -> -10
      [] text = "text+20" -> 20
      [] text = "text+120" -> 120

GoodDate(d, h) == [ok |-> TRUE, day |-> d, hour |-> h]
BadDate == [ok |-> FALSE, day |-> 0, hour |-> 0]

Row(date, member, message) == [date |-> date, member |-> member, message |-> message]

\* The rows a CSV file may hold: on day 1 every text from anna and two
\* from boris, one row type on each later day (one of them at noon), a row
\* without message, and rows whose date does not parse (with and without
\* message).
RowTypes ==
    {Row(GoodDate(1, 0), "anna", t) : t \in Texts}
    \cup {Row(GoodDate(1, 0), "boris", t) : t \in {Throws, "text+20"}}
    \cup {Row(GoodDate(d, 0), "anna", "text+20") : d \in 2..MaxDay}
    \cup {Row(GoodDate(MaxDay, 12), "boris", "text+20")}
    \cup {Row(GoodDate(1, 0), "anna", NULL)}
    \cup {Row(BadDate, "anna", "text+20"), Row(BadDate, "boris", NULL)}

(* ---------------------------- floats ----------------------------------- *)

NaN == [nan |-> TRUE, v |-> 0]
Num(x) == [nan |-> FALSE, v |-> x]

Lt(a, b) == ~a.nan /\ ~b.nan /\ a.v < b.v
Gt(a, b) == ~a.nan /\ ~b.nan /\ a.v > b.v

\* Python's max(a, b): a unless b > a.
PyMax(a, b) == IF Gt(b, a) THEN b ELSE a

\* Python's min(a, b): a unless b < a.
PyMin(a, b) == IF Lt(b, a) THEN b ELSE a

\* n/d rounded to the nearest integer, ties to even (d > 0).
Round(n, d) ==
    LET q == n \div d
        r == n % d
    IN  IF 2 * r < d THEN q
        ELSE IF 2 * r > d THEN q + 1
        ELSE IF q % 2 = 0 THEN q ELSE q + 1

RECURSIVE SumOver(_, _)
SumOver(S, f) ==
    IF S = {} THEN 0
    ELSE LET x == CHOOSE y \in S : TRUE
         IN  f[x] + SumOver(S \ {x}, f)

RECURSIVE ISqrtIn(_, _, _)
\* floor(sqrt(n)) by bisection, lo*lo <= n < hi*hi
ISqrtIn(n, lo, hi) ==
    IF hi - lo <= 1 THEN lo
    ELSE LET mid == (lo + hi) \div 2
         IN  IF mid * mid <= n THEN ISqrtIn(n, mid, hi) ELSE ISqrtIn(n, lo, mid)

ISqrt(n) == ISqrtIn(n, 0, 2001)

(* ------------------------- the DataFrame ------------------------------- *)

\* df.dropna(subset=['message'])
DropNa(df) == [r \in RowTypes |-> IF r.message = NULL THEN 0 ELSE df[r]]

Present(df) == {r \in RowTypes : df[r] > 0}

\* len(df)
Size(df) == SumOver(Present(df), df)

\* pd.to_datetime(df['date']) raises ValueError on a string it cannot parse
DatesParse(df) == \A r \in Present(df) : r.date.ok

\* the parsed timestamp, in hours
ToDatetime(date) == date.day * 24 + date.hour

\* the calendar-day bin of resample('D')
DayBin(ts) == ts \div 24

DaysPresent(df) == {DayBin(ToDatetime(r.date)) : r \in Present(df)}

MinOf(S) == CHOOSE x \in S : \A y \in S : x <= y
MaxOf(S) == CHOOSE x \in S : \A y \in S : x >= y

CountOnDay(df, d) ==
    SumOver({r \in Present(df) : DayBin(ToDatetime(r.date)) = d}, df)

\* a groupby of the dates: one bin per day that has a message
DailyActivityNoFill(df) ==
    [d \in DaysPresent(df) |-> CountOnDay(df, d)]

\* df.set_index('date').resample('D').size(): one bin per calendar day from
\* the earliest to the latest date, empty days included
DailyActivity(df) ==
    LET ds == DaysPresent(df)
    IN  IF ds = {} THEN [d \in {} |-> 0]
        ELSE [d \in MinOf(ds)..MaxOf(ds) |-> CountOnDay(df, d)]

\* round(daily_activity.mean(), 1), in tenths
AvgDailyMessages(df) ==
    LET da == DailyActivity(df)
    IN  IF DOMAIN da = {} THEN NaN
        ELSE Num(Round(10 * SumOver(DOMAIN da, da), Cardinality(DOMAIN da)))

\* get_sentiment(text), in hundredths: the polarity, 0 when the capability raises
get_sentiment_negative(text) == IF text = Throws THEN -100 ELSE Polarity(text)
get_sentiment(text) == IF text = Throws THEN 0 ELSE Polarity(text)

\* round(df['sentiment'].mean(), 2), in hundredths
AvgSentiment(df) ==
    IF Size(df) = 0 THEN NaN
    ELSE Num(Round(SumOver(Present(df),
                           [r \in Present(df) |-> df[r] * get_sentiment(r.message)]),
                   Size(df)))

\* df['member'].value_counts(): the members that wrote, with their counts
ValueCounts(df) ==
    LET count == [m \in Members |->
                     SumOver({r \in Present(df) : r.member = m}, df)]
    IN  [m \in {x \in Members : count[x] > 0} |-> count[m]]

\* participation.std(): the sample standard deviation (ddof = 1) of the
\* shares count/N, as its variance num/den; NaN for fewer than two members.
\* With k members: var = sum((k*c - N)^2) / (k^2 * N^2 * (k - 1)).
ParticipationStd(df) ==
    LET vc == ValueCounts(df)
        k == Cardinality(DOMAIN vc)
        N == Size(df)
    IN  IF k < 2 THEN [nan |-> TRUE, num |-> 0, den |-> 1]
        ELSE [nan |-> FALSE,
              num |-> SumOver(DOMAIN vc,
                              [m \in DOMAIN vc |-> (k * vc[m] - N) * (k * vc[m] - N)]),
              den |-> k * k * N * N * (k - 1)]

\* participation.std() > 0.3
StdAbove03(std) == ~std.nan /\ 100 * std.num > 9 * std.den

\* round((1 - participation.std()) * 100, 1), in tenths
ParticipationBalance(std) ==
    IF std.nan THEN NaN
    ELSE LET f == ISqrt((4000000 * std.num) \div std.den)
         IN  IF f * f * std.den = 4000000 * std.num /\ f % 2 = 1
             THEN Num(Round(2000 - f, 2))
             ELSE Num(1000 - ((f + 1) \div 2))

(* ---------------------------- scores ----------------------------------- *)

\* min(100, max(0, x)), x in tenths
ClampNoFloor(x) == PyMin(Num(1000), x)
Clamp(x) == PyMin(Num(1000), PyMax(Num(0), x))

\* avg_daily_messages * 2
CommunicationRaw(avg) == IF avg.nan THEN NaN ELSE Num(avg.v * 2)

\* (avg_sentiment + 1) * 50: hundredths to tenths
SentimentRaw(avg) == IF avg.nan THEN NaN ELSE Num((avg.v + 100) * 5)

\* round(c * 0.4 + s * 0.3 + b * 0.3, 1)
TotalScoreHeavy(c, s, b) ==
    IF c.nan \/ s.nan \/ b.nan THEN NaN
    ELSE Num(Round(5 * c.v + 3 * s.v + 3 * b.v, 10))
TotalScore(c, s, b) ==
    IF c.nan \/ s.nan \/ b.nan THEN NaN
    ELSE Num(Round(4 * c.v + 3 * s.v + 3 * b.v, 10))

Positive == "Positive"
Neutral == "Neutral"
Negative == "Negative"

\* "Позитивный" if avg_sentiment > 0.2 else "Нейтральный" if avg_sentiment > -0.1
\* else "Негативный"
SentimentLabelInclusive(avg) ==
    IF Gt(avg, Num(20)) THEN Positive
    ELSE IF ~avg.nan /\ avg.v >= -10 THEN Neutral
    ELSE Negative
SentimentLabel(avg) ==
    IF Gt(avg, Num(20)) THEN Positive
    ELSE IF Gt(avg, Num(-10)) THEN Neutral
    ELSE Negative

(* ------------------------ recommendations ------------------------------ *)

LowFrequency == "low frequency: introduce daily 15-minute stand-ups"
Tone == "neutral/negative tone: start meetings with positive moments"
Uneven == "uneven participation: rotate the meeting facilitator"
Fallback == "excellent balance: keep it up"

RecommendationsFirstOnly(avg_daily_messages, avg_sentiment, std) ==
    IF Lt(avg_daily_messages, Num(50)) THEN <<LowFrequency>>
    ELSE IF Lt(avg_sentiment, Num(10)) THEN <<Tone>>
    ELSE IF StdAbove03(std) THEN <<Uneven>>
    ELSE <<Fallback>>
Recommendations(avg_daily_messages, avg_sentiment, std) ==
    LET r1 == IF Lt(avg_daily_messages, Num(50)) THEN <<LowFrequency>> ELSE <<>>
        r2 == IF Lt(avg_sentiment, Num(10)) THEN r1 \o <<Tone>> ELSE r1
        r3 == IF StdAbove03(std) THEN r2 \o <<Uneven>> ELSE r2
    IN  IF r3 = <<>> THEN <<Fallback>> ELSE r3

(* --------------------- analyze_team_communication ---------------------- *)

None == [none |-> TRUE]

\* the local variables avg_daily_messages, avg_sentiment, participation.std()
\* and participation_balance of the cleaned DataFrame
\* (a value chosen from a singleton set is bound once, like the local
\* variable it stands for)
RawStatistics(df) ==
    CHOOSE st \in {[avg_daily_messages |-> AvgDailyMessages(df),
                    avg_sentiment |-> AvgSentiment(df),
                    participation_std |-> std,
                    participation_balance |-> ParticipationBalance(std)] :
                   std \in {ParticipationStd(df)}} : TRUE

\* the report dictionary
BuildReport(st) ==
    LET communication_score == Clamp(CommunicationRaw(st.avg_daily_messages))
        sentiment_score == Clamp(SentimentRaw(st.avg_sentiment))
        balance_score == Clamp(st.participation_balance)
    IN  [total_score |-> TotalScore(communication_score, sentiment_score, balance_score),
         metrics |->
            [communication |-> [value |-> st.avg_daily_messages,
                                score |-> communication_score],
             sentiment |-> [value |-> st.avg_sentiment,
                            score |-> sentiment_score,
                            label |-> SentimentLabel(st.avg_sentiment)],
             balance |-> [value |-> st.participation_balance,
                          score |-> balance_score]],
         recommendations |->
            Recommendations(st.avg_daily_messages, st.avg_sentiment,
                            st.participation_std)]

\* what a call on the rows of a CSV file ends in
Outcome(csv) ==
    LET df == DropNa(csv)
    IN  IF ~DatesParse(df)
        THEN [pc |-> "raised", error |-> "ValueError", stats |-> None, report |-> None]
        ELSE CHOOSE out \in {[pc |-> "returned", error |-> "none",
                               stats |-> st, report |-> BuildReport(st)] :
                              st \in {RawStatistics(df)}} : TRUE

(* ---------------------------- behaviour -------------------------------- *)

Init ==
    /\ rows = [r \in RowTypes |-> 0]
    /\ pc = "ready"
    /\ stats = None
    /\ report = None
    /\ error = "none"

\* one more line in the CSV file that will be analysed
AddRow(r) ==
    /\ pc = "ready"
    /\ Size(rows) < MaxRows
    /\ rows' = [rows EXCEPT ![r] = @ + 1]
    /\ UNCHANGED <<pc, stats, report, error>>

\* analyze_team_communication(csv_path) on the file
Analyze ==
    /\ pc = "ready"
    /\ \E out \in {Outcome(rows)} :
           /\ pc' = out.pc
           /\ error' = out.error
           /\ stats' = out.stats
           /\ report' = out.report
    /\ UNCHANGED rows

Next ==
    \/ \E r \in RowTypes : AddRow(r)
    \/ Analyze

Spec == Init /\ [][Next]_vars

(* ----------------------------- claims ---------------------------------- *)

Cleaned == DropNa(rows)
Senders == {r.member : r \in Present(Cleaned)}
Range(seq) == {seq[i] : i \in DOMAIN seq}
Abs(x) == IF x < 0 THEN -x ELSE x
InScale(x) == ~x.nan /\ x.v >= 0 /\ x.v <= 1000

\* C1: for a non-empty cleaned dataset the returned total_score lies in
\* [0, 100] and is the value with 1 decimal nearest to
\* communication_score*0.4 + sentiment_score*0.3 + balance_score*0.3 of the
\* three clamped sub-scores of the same report.
C1_TotalIsWeightedSum ==
    (pc = "returned" /\ Size(Cleaned) > 0) =>
        LET c == report.metrics.communication.score
            s == report.metrics.sentiment.score
            b == report.metrics.balance.score
            t == report.total_score
        IN  /\ InScale(t)
            /\ ~c.nan /\ ~s.nan /\ ~b.nan
            /\ 2 * Abs(10 * t.v - (4 * c.v + 3 * s.v + 3 * b.v)) <= 10

\* a report whose three sub-scores differ: sentiment clamped to 100, a
\* positive communication score and a balance score strictly inside (0, 100)
C1_Witness ==
    /\ pc = "returned"
    /\ Size(Cleaned) > 0
    /\ report.metrics.sentiment.score = Num(1000)
    /\ Gt(report.metrics.communication.score, Num(0))
    /\ Gt(report.metrics.balance.score, Num(0))
    /\ Lt(report.metrics.balance.score, Num(1000))
    /\ Gt(report.total_score, Num(0))

C3_Recommendations ==
    pc = "returned" =>
        LET a == stats.avg_daily_messages
            t == stats.avg_sentiment
            sd == stats.participation_std
            fire1 == ~a.nan /\ a.v < 50
            fire2 == ~t.nan /\ t.v < 10
            fire3 == ~sd.nan /\ 100 * sd.num > 9 * sd.den
            warnings == (IF fire1 THEN <<LowFrequency>> ELSE <<>>)
                        \o (IF fire2 THEN <<Tone>> ELSE <<>>)
                        \o (IF fire3 THEN <<Uneven>> ELSE <<>>)
            recs == report.recommendations
        IN  /\ recs = IF warnings = <<>> THEN <<Fallback>> ELSE warnings
            /\ Len(recs) >= 1
            /\ (Fallback \in Range(recs))
                 <=> (Range(recs) \cap {LowFrequency, Tone, Uneven} = {})

\* the second and third rule fire without the first
C3_Witness ==
    /\ pc = "returned"
    /\ report.recommendations = <<Tone, Uneven>>

\* C4 as stated: 0.2 gives Neutral, above 0.2 Positive, exactly -0.1 gives
\* Neutral, below -0.1 Negative.
C4_Original ==
    (pc = "returned" /\ ~stats.avg_sentiment.nan) =>
        LET a == stats.avg_sentiment.v
            label == report.metrics.sentiment.label
        IN  /\ (a = 20 => label = Neutral)
            /\ (a > 20 => label = Positive)
            /\ (a = -10 => label = Neutral)
            /\ (a < -10 => label = Negative)

\* C4 amended: 0.2 gives Neutral, above 0.2 Positive, above -0.1 and up to
\* 0.2 Neutral, exactly -0.1 and anything below it Negative.
C4_LabelBoundaries ==
    (pc = "returned" /\ ~stats.avg_sentiment.nan) =>
        LET a == stats.avg_sentiment.v
            label == report.metrics.sentiment.label
        IN  /\ (a = 20 => label = Neutral)
            /\ (a > 20 => label = Positive)
            /\ ((a > -10 /\ a < 20) => label = Neutral)
            /\ (a = -10 => label = Negative)
            /\ (a < -10 => label = Negative)

\* avg_sentiment is exactly -0.1
C4_Witness ==
    /\ pc = "returned"
    /\ stats.avg_sentiment = Num(-10)
    /\ report.metrics.sentiment.label = Negative

\* C5 as stated: when one member sends all messages of a non-empty dataset,
\* balance_score is below 100 and the uneven-participation recommendation is
\* in the list.
C5_Original ==
    (pc = "returned" /\ Size(Cleaned) > 0 /\ Cardinality(Senders) = 1) =>
        /\ Lt(report.metrics.balance.score, Num(1000))
        /\ Uneven \in Range(report.recommendations)

\* C6: a record whose sentiment evaluation fails does not abort the run; it
\* contributes 0.0 to avg_sentiment, every other record its own polarity,
\* and a complete report is returned.
C6_SentimentFailureRecovered ==
    (pc # "ready" /\ DatesParse(Cleaned)) =>
        /\ pc = "returned"
        /\ error = "none"
        /\ report # None
        /\ Size(Cleaned) > 0 =>
             LET ok == {r \in Present(Cleaned) : r.message # Throws}
                 sum == SumOver(ok, [r \in ok |-> Cleaned[r] * Polarity(r.message)])
             IN  stats.avg_sentiment = Num(Round(sum, Size(Cleaned)))

\* a failing record next to a record with a polarity of its own
C6_Witness ==
    /\ pc = "returned"
    /\ \E r \in Present(Cleaned) : r.message = Throws
    /\ \E r \in Present(Cleaned) : r.message # Throws
    /\ ~stats.avg_sentiment.nan
    /\ stats.avg_sentiment.v > 0

\* C7 as stated: with no record left after dropping the rows without
\* message, the call fails with InsufficientDataError and returns no report.
C7_Original ==
    (pc # "ready" /\ Size(Cleaned) = 0) =>
        /\ pc = "raised"
        /\ error = "InsufficientDataError"
        /\ report = None

\* C8 as stated, for the non-empty datasets it names: no numeric field of a
\* returned report is NaN.
C8_Original ==
    (pc = "returned" /\ Size(Cleaned) > 0) =>
        /\ ~report.total_score.nan
        /\ \A m \in {report.metrics.communication, report.metrics.balance} :
              ~m.value.nan /\ ~m.score.nan
        /\ ~report.metrics.sentiment.value.nan
        /\ ~report.metrics.sentiment.score.nan

\* C9: avg_daily_messages is the number of cleaned records divided by the
\* number of calendar days from the earliest to the latest date inclusive,
\* rounded to 1 decimal; days without messages count.
C9_AvgDailyMessages ==
    (pc = "returned" /\ Size(Cleaned) > 0) =>
        LET days == {r.date.day : r \in Present(Cleaned)}
            span == MaxOf(days) - MinOf(days) + 1
            a == stats.avg_daily_messages
        IN  /\ ~a.nan
            /\ report.metrics.communication.value = a
            /\ 2 * Abs(a.v * span - 10 * Size(Cleaned)) <= span

\* a day without messages inside the range
C9_Witness ==
    /\ pc = "returned"
    /\ Size(Cleaned) > 1
    /\ LET days == {r.date.day : r \in Present(Cleaned)}
       IN  \E d \in MinOf(days)..MaxOf(days) : d \notin days

\* the file without the rows whose date does not parse
DropUnparseable(csv) == [r \in RowTypes |-> IF r.date.ok THEN csv[r] ELSE 0]

\* C10 as stated: a record with an unparseable timestamp is filtered out like
\* one without text; the run does not fail and the report is that of the
\* dataset without the record.
C10_Original ==
    (pc # "ready" /\ \E r \in Present(Cleaned) : ~r.date.ok) =>
        /\ pc = "returned"
        /\ report = Outcome(DropUnparseable(rows)).report

====
